---- MODULE Spec2Model ----
(***************************************************************************)
(* Model of the two React components of the repository:                    *)
(*   src/src/FocusedDreamView.tsx  (modal viewer / editor of one dream)    *)
(*   src/src/DreamCard.tsx         (card preview of one dream)             *)
(*                                                                         *)
(* One action is one DOM event or one promise settlement, together with    *)
(* the React re-render and the effects that follow it.  The zoom scale is  *)
(* a JavaScript number: it is modelled as an IEEE-754 double, with the     *)
(* additions, the multiplication by 100 and the roundings computed bit     *)
(* for bit (see the section "doubles").                                    *)
(***************************************************************************)
EXTENDS Integers, Sequences, FiniteSets, TLC

(***************************************************************************)
(* Bounds of the model.                                                    *)
(***************************************************************************)
NumIds == 3          \* record identifiers are 1..NumIds
MaxListLen == 3      \* longest list of records passed as allDreams
NumTexts == 2        \* texts a record's content / the textarea can hold
MaxSaves == 1        \* updateDreamContent calls outstanding at once
MaxGens == 1         \* generateStory calls outstanding at once

Ids == 1..NumIds
Texts == 1..NumTexts
NoValue == 0         \* an optional field that is undefined

(***************************************************************************)
(* Doubles.  A non-negative double x is the triple <<a, b, c>> of 20-bit   *)
(* limbs with x = (a * 2^40 + b * 2^20 + c) * 2^-55; every double between  *)
(* 2^-2 and 2^8 is such a triple exactly.                                  *)
(***************************************************************************)
Limb == 2^20

Carry3(a, b, c) ==
    LET b1 == b + (c \div Limb)
    IN  << a + (b1 \div Limb), b1 % Limb, c % Limb >>

ExactAdd(x, y) == Carry3(x[1] + y[1], x[2] + y[2], x[3] + y[3])
ExactSub(x, y) == Carry3(x[1] - y[1], x[2] - y[2], x[3] - y[3])

Less(x, y) ==
    \/ x[1] < y[1]
    \/ x[1] = y[1] /\ x[2] < y[2]
    \/ x[1] = y[1] /\ x[2] = y[2] /\ x[3] < y[3]

RECURSIVE Log2(_)
Log2(n) == IF n < 2 THEN 0 ELSE 1 + Log2(n \div 2)

\* Unit in the last place (in units of 2^-55) of the binade the exact value
\* lies in: a value with top limb a has bit length Log2(a) + 41, and a double
\* keeps 53 bits.
Ulp(x) == IF x[1] < 2^12 THEN 1 ELSE 2^(Log2(x[1]) - 12)

\* Round to nearest, ties to even: the rounding of every double operation.
RoundToDouble(x) ==
    LET u == Ulp(x)
        r == x[3] % u
        q == x[3] \div u
        up == (2 * r > u) \/ (2 * r = u /\ q % 2 = 1)
    IN  IF r = 0 THEN x
        ELSE IF up THEN Carry3(x[1], x[2], x[3] - r + u)
        ELSE << x[1], x[2], x[3] - r >>

\* x + y where y is the signed double <<sign, magnitude>>, x >= magnitude.
FAdd(x, y) ==
    IF y[1] >= 0 THEN RoundToDouble(ExactAdd(x, y[2]))
    ELSE RoundToDouble(ExactSub(x, y[2]))

\* x * 100
FMul100(x) == RoundToDouble(Carry3(100 * x[1], 100 * x[2], 100 * x[3]))

\* Math.round(x) = floor(x + 0.5), an integer
MathRound(x) == (x[1] + 2^14) \div 2^15

MathMax(x, y) == IF Less(x, y) THEN y ELSE x
MathMin(x, y) == IF Less(y, x) THEN y ELSE x

\* The double nearest to n / 100, for the literals of the source.
Half == << 2^14, 0, 0 >>
One == << 2^15, 0, 0 >>

(***************************************************************************)
(* Constants of FocusedDreamView.tsx, lines 27-30.                         *)
(***************************************************************************)
MIN_SCALE == Half
MAX_SCALE == << 5 * 2^14, 0, 0 >>
ZOOM_LEVELS == << Half, One, << 3 * 2^14, 0, 0 >>, << 2^16, 0, 0 >>, MAX_SCALE >>
\* 0.15 is the double 5404319552844595 * 2^-55
SCROLL_SENSITIVITY == << 4915, 209715, 209715 >>

(***************************************************************************)
(* State.                                                                  *)
(*   dream            the dream prop of a DreamCard                        *)
(*   focusedDream, allDreams   the props of the FocusedDreamView           *)
(*   mounted          whether the FocusedDreamView is mounted              *)
(*   scale, zoomPercentage, isEditing, editedContent   its useState cells  *)
(*   bodyStyle        document.body.style (overflow, position, width)      *)
(*   bodyBefore       the value of bodyStyle just before the last mount    *)
(*   saves, gens      the updateDreamContent / generateStory calls that    *)
(*                    have been made and have not settled yet              *)
(*   event            the DOM event or settlement the last step handled    *)
(*   effects          what the last step did to the outside: callbacks of  *)
(*                    the parent, calls of the backend, console output     *)
(***************************************************************************)
VARIABLES dream, focusedDream, allDreams, mounted, scale, zoomPercentage,
          isEditing, editedContent, bodyStyle, bodyBefore, saves, gens,
          event, effects

vars == << dream, focusedDream, allDreams, mounted, scale, zoomPercentage,
           isEditing, editedContent, bodyStyle, bodyBefore, saves, gens,
           event, effects >>

props == << focusedDream, allDreams >>
zoomState == << scale, zoomPercentage >>
editState == << isEditing, editedContent >>
bodyState == << bodyStyle, bodyBefore >>
calls == << saves, gens >>

\* The Dream type (FocusedDreamView.tsx 9-18, DreamCard.tsx 6-15); an
\* optional field that is absent is NoValue, analysis.title is title.
Statuses == {"none", "pending", "storified"}
Dream(id, content, story, status, title) ==
    [content |-> content, story |-> story, status |-> status, title |-> title,
     _id |-> id]

NoEvent == [type |-> "none", target |-> "none", deltaY |-> 0, handlers |-> {}]
Ev(type, target, deltaY, handlers) ==
    [type |-> type, target |-> target, deltaY |-> deltaY, handlers |-> handlers]

(***************************************************************************)
(* Zoom (FocusedDreamView.tsx 104-123 and 243-265).                        *)
(***************************************************************************)
WheelDeltas == {-1, 0, 1}     \* e.deltaY: wheel up, no vertical part, wheel down

\* Array.prototype.indexOf on ZOOM_LEVELS: strict equality, -1 when absent
IndexOfZoomLevel(s) ==
    IF \E i \in 1..Len(ZOOM_LEVELS) : ZOOM_LEVELS[i] = s
    THEN (CHOOSE i \in 1..Len(ZOOM_LEVELS) :
             /\ ZOOM_LEVELS[i] = s
             /\ \A j \in 1..(i - 1) : ZOOM_LEVELS[j] # s) - 1
    ELSE -1

\* Math.round(newScale * 100)
Percentage(s) == MathRound(FMul100(s))

\* onClick of the zoom control, lines 246-253
\* (variant: the index stops at the last preset instead of wrapping)
ZoomOnClickNoWrap(s) ==
    LET currentIndex == IndexOfZoomLevel(s)
        nextIndex == IF currentIndex + 1 < Len(ZOOM_LEVELS)
                     THEN currentIndex + 1 ELSE currentIndex
        newScale == ZOOM_LEVELS[nextIndex + 1]
    IN  [scale |-> newScale, zoomPercentage |-> Percentage(newScale)]
ZoomOnClick(s) ==
    LET currentIndex == IndexOfZoomLevel(s)
        nextIndex == (currentIndex + 1) % Len(ZOOM_LEVELS)
        newScale == ZOOM_LEVELS[nextIndex + 1]
    IN  [scale |-> newScale, zoomPercentage |-> Percentage(newScale)]

\* Math.max(MIN_SCALE, Math.min(MAX_SCALE, x)), lines 109 and 258
\* (variant: the upper bound is forgotten)
ClampMissingMax(x) == MathMax(MIN_SCALE, x)
Clamp(x) == MathMax(MIN_SCALE, MathMin(MAX_SCALE, x))

\* e.deltaY < 0 ? SCROLL_SENSITIVITY : -SCROLL_SENSITIVITY
Delta(deltaY) ==
    IF deltaY < 0 THEN << 1, SCROLL_SENSITIVITY >> ELSE << -1, SCROLL_SENSITIVITY >>

\* handleWheel, the native listener of lines 105-112; s is the scale its
\* closure holds
handleWheel(s, deltaY) ==
    LET newScale == Clamp(FAdd(s, Delta(deltaY)))
    IN  [scale |-> newScale, zoomPercentage |-> Percentage(newScale)]

\* the React onWheel prop of lines 254-261; s is the scale of the render
\* that created it
onWheel(s, deltaY) ==
    LET newScale == Clamp(FAdd(s, Delta(deltaY)))
    IN  [scale |-> newScale, zoomPercentage |-> Percentage(newScale)]

\* One wheel event on the zoom control.  The native listener is attached to
\* the element itself and runs first; it calls e.stopPropagation() (line
\* 107), so the event never reaches the root container where React listens
\* and onWheel is not called.  Were it called, it would compute from the
\* scale of the same render and set the same value again.
NativeStopsPropagation == TRUE
\* (variant: onWheel also runs, on the scale handleWheel has just set)
WheelAppliedTwice(s, deltaY) == onWheel(handleWheel(s, deltaY).scale, deltaY)
WheelDispatch(s, deltaY) ==
    LET native == handleWheel(s, deltaY)
    IN  IF NativeStopsPropagation THEN native ELSE onWheel(s, deltaY)

(***************************************************************************)
(* Rendering.  A render is the set of <<element, value>> pairs on screen.  *)
(***************************************************************************)
EmptyString == -1    \* the string "", which is falsy like undefined

\* JavaScript truthiness of an optional string
Truthy(v) == v # NoValue /\ v # EmptyString

\* DreamCard.tsx 47-71: the content of the card
DreamCardRender(d) ==
    IF d.status = "pending"
    THEN {<< "spinner", NoValue >>}
    ELSE IF Truthy(d.story) \/ Truthy(d.title)
    THEN {<< "title", d.title >>}
         \cup (IF Truthy(d.story) THEN {<< "story", d.story >>} ELSE {})
    ELSE {<< "unavailable", NoValue >>}

\* (variant: the story is shown without looking at the status)
FocusedRenderStatusForgotten(d, editing, edited) ==
    (IF d.status = "pending" THEN {<< "spinner", NoValue >>} ELSE {})
    \cup (IF Truthy(d.story) THEN {<< "story", d.story >>} ELSE {})

\* FocusedDreamView.tsx 166-210: the content of the modal card
FocusedRender(d, editing, edited) ==
    (IF d.status = "pending" THEN {<< "spinner", NoValue >>} ELSE {})
    \cup
    (IF d.status # "pending"
     THEN {IF Truthy(d.title) THEN << "title", d.title >>
                              ELSE << "defaultTitle", NoValue >>}
          \cup (IF editing THEN {<< "textarea", edited >>}
                           ELSE {<< "content", d.content >>})
          \cup {<< "storyHeading", NoValue >>}
          \cup (IF Truthy(d.story) THEN {<< "story", d.story >>}
                                   ELSE {<< "storyMissing", NoValue >>})
     ELSE {})
    \cup
    (IF d.status # "pending" /\ ~Truthy(d.story)
     THEN {<< "storyFailed", NoValue >>} ELSE {})

Shows(render, element) == \E p \in render : p[1] = element

(***************************************************************************)
(* Navigation availability (FocusedDreamView.tsx 34-36, 223, 234).         *)
(***************************************************************************)
\* Array.prototype.findIndex(dream => dream._id === id): 0-based, -1 if none
FindIndex(list, id) ==
    IF \E i \in 1..Len(list) : list[i]._id = id
    THEN (CHOOSE i \in 1..Len(list) :
             /\ list[i]._id = id
             /\ \A j \in 1..(i - 1) : list[j]._id # id) - 1
    ELSE -1

currentIndex == FindIndex(allDreams, focusedDream._id)
\* (variant: a record that is not in the list counts as the first)
isFirstOrAbsent == currentIndex <= 0
isFirst == currentIndex = 0
isLast == currentIndex = Len(allDreams) - 1

(***************************************************************************)
(* The elements of the modal that a click can hit, and the bubbling of a   *)
(* click through the onClick props (FocusedDreamView.tsx 138-328).         *)
(***************************************************************************)
Elements == {"backdrop", "card", "toolbar", "prev", "next", "zoom", "edit",
             "save", "regen"}

\* the toolbar is the pair of wrapper divs of lines 217-219
ParentOf(el) ==
    CASE el = "backdrop" -> "root"
      [] el \in {"card", "toolbar"} -> "backdrop"
      [] OTHER -> "toolbar"

HasOnClick(el) == el # "toolbar"

\* e.stopPropagation() in the onClick: lines 158, 222, 233, 247, 268, 286, 306
\* (variant: the card's onClick does not stop the click)
StopsPropagationExceptCard(el) == el \notin {"backdrop", "card"}
StopsPropagation(el) == el # "backdrop"

\* disabled={isFirst} / disabled={isLast}: React does not call the onClick
\* of a disabled button
Disabled(el) == (el = "prev" /\ isFirst) \/ (el = "next" /\ isLast)

\* The elements whose onClick runs when a click dispatched at el bubbles up.
RECURSIVE Bubble(_)
Bubble(el) ==
    IF el = "root" THEN {}
    ELSE IF HasOnClick(el) /\ ~Disabled(el)
    THEN {el} \cup (IF StopsPropagation(el) THEN {} ELSE Bubble(ParentOf(el)))
    ELSE Bubble(ParentOf(el))

\* A click on a disabled button: some browsers dispatch no click event at
\* all, others dispatch it and let it bubble to the ancestors.
Dispatches(el) == IF Disabled(el) THEN BOOLEAN ELSE {TRUE}
Ran(el, dispatched) == IF dispatched THEN Bubble(el) ELSE {}

\* The callbacks of the parent that the handlers in ran invoke.
Callbacks(ran) ==
    (IF "backdrop" \in ran THEN {"onClose"} ELSE {})
    \cup (IF "prev" \in ran THEN {"onNavigate:prev"} ELSE {})
    \cup (IF "next" \in ran THEN {"onNavigate:next"} ELSE {})

(***************************************************************************)
(* The initial values of the useState cells (lines 39-43).                 *)
(***************************************************************************)
InitialScale == One
InitialZoomPercentage == 100

\* document.body.style as the scroll-lock effect sets it (lines 57-59) and
\* as its cleanup sets it (lines 61-63); style is the value found
LockedStyle == [overflow |-> "hidden", position |-> "fixed", width |-> "100%"]
ReleasedStyle == [overflow |-> "unset", position |-> "", width |-> ""]
ScrollLock(style) == LockedStyle
\* (variant: the cleanup forgets position)
ScrollLockCleanupKeepsPosition(style) ==
    [overflow |-> "unset", position |-> style.position, width |-> ""]
ScrollLockCleanup(style) == ReleasedStyle

(***************************************************************************)
(* Clicks.                                                                 *)
(***************************************************************************)
\* A click that changes no state of the component: only callbacks.
PlainClick(target) ==
    /\ mounted
    /\ \E dispatched \in Dispatches(target) :
         LET ran == Ran(target, dispatched)
         IN  /\ event' = Ev("click", target, 0, ran)
             /\ effects' = Callbacks(ran)
    /\ UNCHANGED << dream, props, mounted, zoomState, editState, bodyState, calls >>

\* line 141
ClickBackdrop == PlainClick("backdrop")
\* line 158
ClickCard == PlainClick("card")
\* the wrapper divs of lines 217-219, between the buttons
ClickToolbar == PlainClick("toolbar")
\* lines 221-230
ClickPrev == PlainClick("prev")
\* lines 232-241
ClickNext == PlainClick("next")

\* lines 246-253
ClickZoom ==
    /\ mounted
    /\ LET ran == Bubble("zoom")
           new == ZoomOnClick(scale)
       IN  /\ scale' = new.scale
           /\ zoomPercentage' = new.zoomPercentage
           /\ event' = Ev("click", "zoom", 0, ran)
           /\ effects' = Callbacks(ran)
    /\ UNCHANGED << dream, props, mounted, editState, bodyState, calls >>

\* a wheel event on the zoom control, lines 104-123 and 254-261
WheelZoom(deltaY) ==
    /\ mounted
    /\ LET new == WheelDispatch(scale, deltaY)
       IN  /\ scale' = new.scale
           /\ zoomPercentage' = new.zoomPercentage
    /\ event' = Ev("wheel", "zoom", deltaY, {"zoom"})
    /\ effects' = {}
    /\ UNCHANGED << dream, props, mounted, editState, bodyState, calls >>

\* An edit session lasts from a render that switches isEditing on to the
\* next render that switches it off (lines 81, 269, 289, 308).  The code
\* keeps no record of the session a call was started in: the continuation
\* of line 289 belongs to the closure of the click.  The model writes it on
\* the outstanding call, as the field live, which no action reads to decide
\* what the component does.  EndOfSession is what the end of a session
\* makes of the outstanding calls.
EndOfSession(ss) == [i \in 1..Len(ss) |-> [ss[i] EXCEPT !.live = FALSE]]

\* lines 267-271: setIsEditing(!isEditing)
ClickEdit ==
    /\ mounted
    /\ LET ran == Bubble("edit")
       IN  /\ event' = Ev("click", "edit", 0, ran)
           /\ effects' = Callbacks(ran)
    /\ isEditing' = ~isEditing
    /\ saves' = IF isEditing' THEN saves ELSE EndOfSession(saves)
    /\ UNCHANGED << dream, props, mounted, zoomState, editedContent, bodyState, gens >>

\* line 188: onChange of the textarea, which is on screen only while
\* editing a record that is not pending
Type(text) ==
    /\ mounted
    /\ isEditing
    /\ focusedDream.status # "pending"
    /\ text # editedContent
    /\ editedContent' = text
    /\ event' = Ev("input", "textarea", 0, {"textarea"})
    /\ effects' = {}
    /\ UNCHANGED << dream, props, mounted, zoomState, isEditing, bodyState, calls >>

\* The arguments of updateDreamContent, line 288, in the edit session
\* that is going on at the click.
SaveCall(d, edited) == [content |-> edited, live |-> TRUE, dreamId |-> d._id]

\* lines 283-302 up to the await: the button exists only while editing
ClickSave ==
    /\ mounted
    /\ isEditing
    /\ Len(saves) < MaxSaves
    /\ LET ran == Bubble("save")
       IN  /\ event' = Ev("click", "save", 0, ran)
           /\ effects' = Callbacks(ran) \cup {"updateDreamContent"}
    /\ saves' = Append(saves, SaveCall(focusedDream, editedContent))
    /\ UNCHANGED << dream, props, mounted, zoomState, editState, bodyState, gens >>

RemoveAt(seq, i) == SubSeq(seq, 1, i - 1) \o SubSeq(seq, i + 1, Len(seq))

\* What the continuation after the await does to isEditing (line 289) and
\* what the catch block does to it (lines 290-293).
\* (variant: the catch block also leaves edit mode)
AfterSaveFailedExits(editing) == FALSE
AfterSaveFailed(editing) == editing
AfterSaveSucceeded(editing) == FALSE

\* line 289: the awaited call has succeeded
SaveResolve(i) ==
    /\ mounted
    /\ i \in 1..Len(saves)
    /\ isEditing' = AfterSaveSucceeded(isEditing)
    /\ saves' = IF isEditing' THEN RemoveAt(saves, i)
                 ELSE EndOfSession(RemoveAt(saves, i))
    /\ event' = Ev("saveResolved", "save", 0, {})
    /\ effects' = {}
    /\ UNCHANGED << dream, props, mounted, zoomState, editedContent, bodyState, gens >>

\* lines 290-293: the awaited call has failed
SaveReject(i) ==
    /\ mounted
    /\ i \in 1..Len(saves)
    /\ saves' = RemoveAt(saves, i)
    /\ isEditing' = AfterSaveFailed(isEditing)
    /\ event' = Ev("saveRejected", "save", 0, {})
    /\ effects' = {"console.error:save"}
    /\ UNCHANGED << dream, props, mounted, zoomState, editedContent, bodyState, gens >>

\* lines 304-319.  generateStory(...) is called without await: the try
\* block ends as soon as the call has returned its promise, so the catch
\* runs only if the call throws before returning one.
ClickRegenerate ==
    /\ mounted
    /\ Len(gens) < MaxGens
    /\ isEditing' = IF isEditing THEN FALSE ELSE isEditing
    /\ \E throws \in BOOLEAN :
         LET ran == Bubble("regen")
         IN  /\ event' = Ev("click", "regen", 0, ran)
             /\ IF throws
                THEN /\ effects' = Callbacks(ran) \cup {"generateStory", "console.error:regen"}
                     /\ gens' = gens
                ELSE /\ effects' = Callbacks(ran) \cup {"generateStory"}
                     /\ gens' = Append(gens, [dreamId |-> focusedDream._id])
    /\ saves' = IF isEditing' THEN saves ELSE EndOfSession(saves)
    /\ UNCHANGED << dream, props, mounted, zoomState, editedContent, bodyState >>

\* the promise of generateStory is fulfilled: nobody is waiting for it
GenResolve(i) ==
    /\ mounted
    /\ i \in 1..Len(gens)
    /\ gens' = RemoveAt(gens, i)
    /\ event' = Ev("genResolved", "regen", 0, {})
    /\ effects' = {}
    /\ UNCHANGED << dream, props, mounted, zoomState, editState, bodyState, saves >>

\* the promise of generateStory is rejected: it has no rejection handler
GenReject(i) ==
    /\ mounted
    /\ i \in 1..Len(gens)
    /\ gens' = RemoveAt(gens, i)
    /\ event' = Ev("genRejected", "regen", 0, {})
    /\ effects' = {"unhandledrejection"}
    /\ UNCHANGED << dream, props, mounted, zoomState, editState, bodyState, saves >>

(***************************************************************************)
(* The parent: new props, mounting and unmounting.                         *)
(***************************************************************************)
\* The effect of lines 79-82 runs after a render in which
\* focusedDream.content or focusedDream._id has changed.
DreamChanged(old, new) == old.content # new.content \/ old._id # new._id

\* the parent renders the modal with another focusedDream: after a
\* navigation, or because the store holds a new version of the record
SetFocusedDream(d) ==
    /\ mounted
    /\ d # focusedDream
    /\ focusedDream' = d
    /\ IF DreamChanged(focusedDream, d)
       THEN /\ editedContent' = d.content
            /\ isEditing' = FALSE
       ELSE UNCHANGED editState
    /\ saves' = IF isEditing' THEN saves ELSE EndOfSession(saves)
    /\ event' = Ev("props", "focusedDream", 0, {})
    /\ effects' = {}
    /\ UNCHANGED << dream, allDreams, mounted, zoomState, bodyState, gens >>

\* the parent renders the modal with another list
SetAllDreams(list) ==
    /\ mounted
    /\ list # allDreams
    /\ allDreams' = list
    /\ event' = Ev("props", "allDreams", 0, {})
    /\ effects' = {}
    /\ UNCHANGED << dream, focusedDream, mounted, zoomState, editState, bodyState, calls >>

\* the parent mounts the modal: the useState cells take their initial
\* values (lines 39-43) and the effects run (lines 56-59, 79-82)
Mount(d) ==
    /\ ~mounted
    /\ mounted' = TRUE
    /\ focusedDream' = d
    /\ scale' = InitialScale
    /\ zoomPercentage' = InitialZoomPercentage
    /\ isEditing' = FALSE
    /\ editedContent' = d.content
    /\ bodyBefore' = bodyStyle
    /\ bodyStyle' = ScrollLock(bodyStyle)
    /\ event' = Ev("mount", "modal", 0, {})
    /\ effects' = {}
    /\ UNCHANGED << dream, allDreams, calls >>

\* the parent unmounts the modal: the cleanups run (lines 60-64).  The
\* calls that are outstanding are not cancelled, but their continuations
\* can only reach the instance that is gone, so the model drops them.
Unmount ==
    /\ mounted
    /\ mounted' = FALSE
    /\ bodyStyle' = ScrollLockCleanup(bodyStyle)
    /\ saves' = << >>
    /\ gens' = << >>
    /\ event' = Ev("unmount", "modal", 0, {})
    /\ effects' = {}
    /\ UNCHANGED << dream, props, zoomState, editState, bodyBefore >>

\* other code of the page sets the three body styles while no modal is open
PageSetsBodyStyle(style) ==
    /\ ~mounted
    /\ style # bodyStyle
    /\ bodyStyle' = style
    /\ event' = Ev("style", "body", 0, {})
    /\ effects' = {}
    /\ UNCHANGED << dream, props, mounted, zoomState, editState, bodyBefore, calls >>

(***************************************************************************)
(* DreamCard (DreamCard.tsx 24-77).                                        *)
(***************************************************************************)
\* the parent renders the card with another dream
SetDream(d) ==
    /\ d # dream
    /\ dream' = d
    /\ event' = Ev("props", "dream", 0, {})
    /\ effects' = {}
    /\ UNCHANGED << props, mounted, zoomState, editState, bodyState, calls >>

\* line 32
CardClickDelete ==
    /\ event' = Ev("click", "delete", 0, {"delete"})
    /\ effects' = {"onDelete"}
    /\ UNCHANGED << dream, props, mounted, zoomState, editState, bodyState, calls >>

\* line 47
CardClickContent ==
    /\ event' = Ev("click", "content", 0, {"content"})
    /\ effects' = {"onFocus"}
    /\ UNCHANGED << dream, props, mounted, zoomState, editState, bodyState, calls >>

(***************************************************************************)
(* The inputs the specifications draw from.                                *)
(***************************************************************************)
OptionalTexts == {NoValue, EmptyString} \cup Texts

\* a record of which only the identifier matters
PlainDream(id) == Dream(id, 1, NoValue, "none", NoValue)

\* records that differ in identifier, content and status
EditIds == {1, 2}
EditDreams ==
    {Dream(id, c, NoValue, st, NoValue) : id \in EditIds, c \in Texts, st \in Statuses}

\* records that differ in status, story and title
RenderDreams ==
    {Dream(1, 1, s, st, t) : s \in OptionalTexts, st \in Statuses, t \in OptionalTexts}

\* the lists of records with distinct identifiers
IdLists(ids, maxLen) ==
    UNION {{l \in [1..n -> ids] : \A i, j \in 1..n : l[i] = l[j] => i = j} :
           n \in 0..maxLen}
ListOf(l) == [i \in 1..Len(l) |-> PlainDream(l[i])]
Lists == {ListOf(l) : l \in IdLists(Ids, MaxListLen)}
FullList == [i \in 1..NumIds |-> PlainDream(i)]

BodyStyles ==
    [overflow : {"", "auto", "hidden", "unset"},
     position : {"", "fixed", "relative"},
     width : {"", "100%", "50%"}]
DefaultStyle == [overflow |-> "", position |-> "", width |-> ""]

\* The modal just mounted with the props d and list, over a page whose
\* body had the default styles.
Mounted(d, list) ==
    /\ dream = PlainDream(1)
    /\ focusedDream = d
    /\ allDreams = list
    /\ mounted = TRUE
    /\ scale = InitialScale
    /\ zoomPercentage = InitialZoomPercentage
    /\ isEditing = FALSE
    /\ editedContent = d.content
    /\ bodyBefore = DefaultStyle
    /\ bodyStyle = ScrollLock(DefaultStyle)
    /\ saves = << >>
    /\ gens = << >>
    /\ event = NoEvent
    /\ effects = {}

(***************************************************************************)
(* Spec: an editing session.  Edit, type, save, regenerate, the            *)
(* settlements of the calls, and new versions of the focused record.       *)
(***************************************************************************)
Init == \E d \in EditDreams : Mounted(d, FullList)

Next ==
    \/ ClickEdit
    \/ \E text \in Texts : Type(text)
    \/ ClickSave
    \/ \E i \in 1..MaxSaves : SaveResolve(i)
    \/ \E i \in 1..MaxSaves : SaveReject(i)
    \/ ClickRegenerate
    \/ \E i \in 1..MaxGens : GenResolve(i)
    \/ \E i \in 1..MaxGens : GenReject(i)
    \/ \E d \in EditDreams : SetFocusedDream(d)

Spec == Init /\ [][Next]_vars

(***************************************************************************)
(* SpecZoom: clicks and wheel events on the zoom control.                  *)
(***************************************************************************)
InitZoom == Mounted(PlainDream(1), FullList)

NextZoom ==
    \/ ClickZoom
    \/ \E deltaY \in WheelDeltas : WheelZoom(deltaY)

SpecZoom == InitZoom /\ [][NextZoom]_vars

(***************************************************************************)
(* SpecNav: the navigation buttons under every list and focused record.    *)
(***************************************************************************)
InitNav == \E id \in Ids : \E list \in Lists : Mounted(PlainDream(id), list)

NextNav ==
    \/ ClickPrev
    \/ ClickNext
    \/ \E id \in Ids : SetFocusedDream(PlainDream(id))
    \/ \E list \in Lists : SetAllDreams(list)

SpecNav == InitNav /\ [][NextNav]_vars

(***************************************************************************)
(* SpecClick: every click target of the modal and the wheel on the zoom    *)
(* control, with the settlements of the calls the clicks start.            *)
(***************************************************************************)
ClickLists == {ListOf(l) : l \in IdLists({1, 2}, 2)}

InitClick == \E list \in ClickLists : Mounted(PlainDream(1), list)

NextClick ==
    \/ ClickBackdrop
    \/ ClickCard
    \/ ClickToolbar
    \/ ClickPrev
    \/ ClickNext
    \/ ClickZoom
    \/ \E deltaY \in WheelDeltas : WheelZoom(deltaY)
    \/ ClickEdit
    \/ ClickSave
    \/ \E i \in 1..MaxSaves : SaveResolve(i)
    \/ \E i \in 1..MaxSaves : SaveReject(i)
    \/ ClickRegenerate
    \/ \E i \in 1..MaxGens : GenResolve(i)
    \/ \E i \in 1..MaxGens : GenReject(i)

SpecClick == InitClick /\ [][NextClick]_vars

(***************************************************************************)
(* SpecRender: what the card and the modal show for every record.          *)
(***************************************************************************)
InitRender ==
    \E c \in RenderDreams : \E d \in RenderDreams :
        /\ dream = c
        /\ focusedDream = d
        /\ allDreams = FullList
        /\ mounted = TRUE
        /\ scale = InitialScale
        /\ zoomPercentage = InitialZoomPercentage
        /\ isEditing = FALSE
        /\ editedContent = d.content
        /\ bodyBefore = DefaultStyle
        /\ bodyStyle = ScrollLock(DefaultStyle)
        /\ saves = << >>
        /\ gens = << >>
        /\ event = NoEvent
        /\ effects = {}

NextRender ==
    \/ \E c \in RenderDreams : SetDream(c)
    \/ \E d \in RenderDreams : SetFocusedDream(d)
    \/ ClickEdit
    \/ CardClickDelete
    \/ CardClickContent

SpecRender == InitRender /\ [][NextRender]_vars

(***************************************************************************)
(* SpecMount: the modal is mounted and unmounted over a page whose body    *)
(* styles are arbitrary.                                                   *)
(***************************************************************************)
InitMount ==
    \E style \in BodyStyles :
        /\ dream = PlainDream(1)
        /\ focusedDream = PlainDream(1)
        /\ allDreams = FullList
        /\ mounted = FALSE
        /\ scale = InitialScale
        /\ zoomPercentage = InitialZoomPercentage
        /\ isEditing = FALSE
        /\ editedContent = PlainDream(1).content
        /\ bodyBefore = style
        /\ bodyStyle = style
        /\ saves = << >>
        /\ gens = << >>
        /\ event = NoEvent
        /\ effects = {}

NextMount ==
    \/ \E id \in Ids : Mount(PlainDream(id))
    \/ Unmount
    \/ \E style \in BodyStyles : PageSetsBodyStyle(style)

SpecMount == InitMount /\ [][NextMount]_vars

(***************************************************************************)
(* Properties.                                                             *)
(***************************************************************************)
InRange(s) == ~Less(s, MIN_SCALE) /\ ~Less(MAX_SCALE, s)
IsClick(e, target) == e.type = "click" /\ e.target = target

\* C1 (SpecZoom): the scale starts at 1.0 and after any sequence of clicks
\* and wheel events on the zoom control it lies in [0.5, 2.5].
C1_ScaleInRange ==
    /\ InRange(scale)
    /\ event = NoEvent => scale = One /\ zoomPercentage = 100

\* a wheel-up event has just been clamped at the maximum
C1_Witness ==
    event.type = "wheel" /\ event.deltaY < 0 /\ scale = MAX_SCALE

\* the labels of the presets 0.5, 1.0, 1.5, 2.0, 2.5
PresetLabels == << 50, 100, 150, 200, 250 >>
RECURSIVE Clicks(_, _)
Clicks(s, n) == IF n = 0 THEN s ELSE Clicks(ZoomOnClick(s).scale, n - 1)

AtFirstIndex ==
    Len(allDreams) >= 1 /\ allDreams[1]._id = focusedDream._id
AtLastIndex ==
    Len(allDreams) >= 1 /\ allDreams[Len(allDreams)]._id = focusedDream._id

\* C4 as claimed (SpecNav): for every list, the empty one included,
\* "previous" is disabled iff the focused record is at index 0 and "next"
\* is disabled iff it is at the last index.
C4_AsClaimed ==
    /\ Disabled("prev") <=> AtFirstIndex
    /\ Disabled("next") <=> AtLastIndex

\* C4 as amended (SpecNav): "previous" is disabled iff the focused record
\* is at index 0; for a list that is not empty "next" is disabled iff the
\* focused record is at the last index; for the empty list "next" is
\* disabled and "previous" is not.
C4_NavDisabled ==
    /\ Disabled("prev") <=> AtFirstIndex
    /\ Len(allDreams) > 0 => (Disabled("next") <=> AtLastIndex)
    /\ Len(allDreams) = 0 => Disabled("next") /\ ~Disabled("prev")

\* the focused record is the last of three: "next" disabled, "previous" not
C4_Witness ==
    /\ Len(allDreams) = 3
    /\ allDreams[3]._id = focusedDream._id
    /\ Disabled("next")
    /\ ~Disabled("prev")

Controls == {"card", "prev", "next", "zoom", "edit", "save", "regen"}

C6_PendingShowsSpinnerOnly ==
    /\ dream.status = "pending" =>
          LET r == DreamCardRender(dream)
          IN  Shows(r, "spinner") /\ ~Shows(r, "story") /\ ~Shows(r, "title")
    /\ focusedDream.status = "pending" =>
          LET r == FocusedRender(focusedDream, isEditing, editedContent)
          IN  Shows(r, "spinner") /\ ~Shows(r, "story") /\ ~Shows(r, "title")

\* both components render a pending record that has a story and a title,
\* the modal in edit mode
C6_Witness ==
    /\ dream.status = "pending" /\ Truthy(dream.story) /\ Truthy(dream.title)
    /\ focusedDream.status = "pending"
    /\ Truthy(focusedDream.story) /\ Truthy(focusedDream.title)
    /\ isEditing

\* C7 (Spec): a click on save calls the mutation with the focused record's
\* identifier and the edit buffer and leaves edit mode on; when the call
\* succeeds edit mode is off; when it fails the failure is logged and edit
\* mode, the edit buffer, the zoom and the props are unchanged.
C7_SaveExitsOnSuccessOnly ==
    [][/\ IsClick(event', "save") =>
             /\ isEditing
             /\ saves' = Append(saves, [content |-> editedContent,
                                        live |-> TRUE,
                                        dreamId |-> focusedDream._id])
             /\ UNCHANGED << editState, zoomState, props >>
       /\ event'.type = "saveResolved" => ~isEditing'
       /\ event'.type = "saveRejected" =>
             /\ "console.error:save" \in effects'
             /\ UNCHANGED << editState, zoomState, props >>]_vars

\* a save has just failed: logged, still editing, the typed text kept
C7_Witness ==
    /\ event.type = "saveRejected"
    /\ "console.error:save" \in effects
    /\ isEditing
    /\ editedContent # focusedDream.content

\* C8 as claimed (Spec): when the generation call fails, the component
\* catches the failure and logs it.
C8_AsClaimed ==
    event.type = "genRejected" =>
        "console.error:regen" \in effects /\ "unhandledrejection" \notin effects

\* C9 as claimed (SpecMount): scrolling is suppressed while the modal is
\* mounted, and after unmount the three body styles equal their values
\* before the mount.
C9_AsClaimed ==
    /\ mounted => bodyStyle.overflow = "hidden" /\ bodyStyle.position = "fixed"
    /\ event.type = "unmount" => bodyStyle = bodyBefore

\* C9 as amended (SpecMount): scrolling is suppressed while the modal is
\* mounted, and after unmount overflow is "unset" and position and width
\* are empty, whatever their values before the mount.
C9_ScrollLockReset ==
    /\ mounted => bodyStyle.overflow = "hidden" /\ bodyStyle.position = "fixed"
    /\ event.type = "unmount" =>
          /\ bodyStyle.overflow = "unset"
          /\ bodyStyle.position = ""
          /\ bodyStyle.width = ""

\* the modal has just been unmounted over a page whose body had
\* overflow "auto", position "relative" and width "50%"
C9_Witness ==
    /\ event.type = "unmount"
    /\ bodyBefore = [overflow |-> "auto", position |-> "relative", width |-> "50%"]
    /\ bodyStyle.overflow = "unset"

\* C10 as claimed (Spec): when the edit button has just switched edit mode
\* on, the value of the text field is the focused record's content.
C10_AsClaimed ==
    IsClick(event, "edit") /\ isEditing => editedContent = focusedDream.content

\* C11 as claimed (Spec): the success of a save switches edit mode off
\* only if the save was started in the edit session that is going on: the
\* success of a save started in an earlier session, one the user has left
\* by cancelling or by going to another record, leaves the session that is
\* going on as it is.
C11_AsClaimed ==
    [][event'.type = "saveResolved" /\ isEditing /\ ~isEditing' =>
          \E i \in 1..Len(saves) :
              /\ saves[i].live
              /\ saves' = EndOfSession(RemoveAt(saves, i))]_vars

====
